---- MODULE Spec2Model ----
(***************************************************************************)
(* A model of the object-storage facade (S3Facade) of the fallible crate:  *)
(* src/src/s3_facade.rs and the StorageFacade contract it implements,      *)
(* src/src/storage_facade.rs.                                              *)
(*                                                                         *)
(* The facade owns no data of its own: every operation is a short          *)
(* sequence of requests to the bucket service.  The model therefore keeps  *)
(* the buckets (store), the facade's metadata, and for every caller the    *)
(* position inside a multi-request operation (pc, cur), the record of the  *)
(* call that returned last, empty while a call is running (last), and the  *)
(* buckets as they were when the caller's latest call started (pre).       *)
(* active is the set of callers that hold the facade, scope the paths each *)
(* caller passes to it, store0 the buckets as they were at the start.      *)
(*                                                                         *)
(* Strings are sequences of one-character strings so that formatting,      *)
(* prefix matching and lexicographic comparison are computed, not assumed. *)
(* An Option is a sequence of length zero (None) or one (Some).            *)
(***************************************************************************)
EXTENDS Integers, Sequences, FiniteSets, TLC

\* ------------------------------------------------------------------------
\* Bounds of the model
\* ------------------------------------------------------------------------

\* longest object body, in bytes
MaxLen == 1

\* largest number of keys the bucket service puts on one listing page
MaxPageSize == 2

\* largest number of versions the bucket service holds under one prefix
MaxVersions == 2

\* ------------------------------------------------------------------------
\* Values
\* ------------------------------------------------------------------------

\* bytes are modelled one bit wide
Byte == 0..1

Data == UNION {[1..n -> Byte] : n \in 0..MaxLen}

\* code points of the characters used in names and keys
Ord(ch) ==
    CASE ch = "/" -> 47
      [] ch = "a" -> 97
      [] ch = "b" -> 98
      [] ch = "x" -> 120
      [] ch = "y" -> 121

\* the bucket the facade is constructed for, and a second bucket of the
\* same account that the facade must never touch
BucketName == <<"x">>

OtherBucket == <<"y">>

Buckets == {BucketName, OtherBucket}

\* the keys a bucket can hold
Keys == {<<"a">>, <<"a", "/", "b">>, <<"b">>}

\* the paths the callers read, write, copy, move, probe and delete; the
\* remaining key is an object that was in the bucket before the facade was
\* constructed, or was not
Paths == {<<"a">>, <<"a", "/", "b">>}

\* prefixes the callers list; the last one matches no key
Prefixes == {<<>>, <<"a">>, <<"a", "/">>, <<"b", "/">>}

Callers == {1, 2}

None == <<>>

Some(v) == <<v>>

Ok(v) == [ok |-> TRUE, val |-> <<v>>, err |-> "none"]

Err(e) == [ok |-> FALSE, val |-> <<>>, err |-> e]

OkUnit == [ok |-> TRUE, val |-> <<>>, err |-> "none"]

\* the set of all orders in which a service can enumerate the keys
KeyOrders(S) ==
    {f \in [1..Cardinality(S) -> S] : \A i, j \in 1..Cardinality(S) : i # j => f[i] # f[j]}

VARIABLES store, store0, metadata, active, scope, pc, cur, last, pre

vars == <<store, store0, metadata, active, scope, pc, cur, last, pre>>

\* ------------------------------------------------------------------------
\* Caller-supplied transforms (the encrypt / decrypt hooks)
\* ------------------------------------------------------------------------

XorKey == 1

Xor(b) == (b + XorKey) % 2

\* "id" is the identity function, "xor" the XOR transform of the tests,
\* "fail" a transform that returns Err
Transforms == {"id", "xor", "fail"}

ApplyTransform(t, bytes) ==
    CASE t = "id" -> Ok(bytes)
      [] t = "xor" -> Ok([i \in 1..Len(bytes) |-> Xor(bytes[i])])
      [] t = "fail" -> Err("Transform")

TransformOptions == {None} \cup {Some(t) : t \in Transforms}

\* ------------------------------------------------------------------------
\* String helpers
\* ------------------------------------------------------------------------

\* str::starts_with
StartsWith(s, prefix) ==
    /\ Len(prefix) <= Len(s)
    /\ \A i \in 1..Len(prefix) : s[i] = prefix[i]

Min(a, b) == IF a < b THEN a ELSE b

\* the Ord implementation of String: byte-wise lexicographic comparison
StrLess(s, t) ==
    \/ \E i \in 1..Min(Len(s), Len(t)) :
          /\ \A j \in 1..(i - 1) : s[j] = t[j]
          /\ Ord(s[i]) < Ord(t[i])
    \/ /\ Len(s) < Len(t)
       /\ \A j \in 1..Len(s) : s[j] = t[j]

RECURSIVE Insert(_, _)
Insert(k, sorted) ==
    IF sorted = <<>> THEN <<k>>
    ELSE IF StrLess(Head(sorted), k) THEN <<Head(sorted)>> \o Insert(k, Tail(sorted))
    ELSE <<k>> \o sorted

RECURSIVE InsertAll(_, _)
InsertAll(keys, sorted) ==
    IF keys = <<>> THEN sorted
    ELSE InsertAll(Tail(keys), Insert(Head(keys), sorted))

\* the keys as the pages delivered them
NoSort(keys) == keys

\* keys.sort()
SortKeys(keys) == InsertAll(keys, <<>>)

\* ------------------------------------------------------------------------
\* The bucket service, as the facade's requests see it.  A bucket maps each
\* key to None (no object) or Some(body).
\* ------------------------------------------------------------------------

\* get_object: the body of the object, or NoSuchKey
GetObject(s, bucket, key) ==
    IF s[bucket][key] = None THEN Err("NoSuchKey") ELSE Ok(s[bucket][key][1])

\* put_object: the object is created or replaced as a whole
PutObject(s, bucket, key, body) == [s EXCEPT ![bucket][key] = Some(body)]

\* delete_object: succeeds whether or not the key holds an object
DeleteObject(s, bucket, key) == [s EXCEPT ![bucket][key] = None]

\* head_object: succeeds exactly when the key holds an object
HeadObject(s, bucket, key) ==
    IF s[bucket][key] = None THEN Err("NotFound") ELSE Ok(Len(s[bucket][key][1]))

\* the service reads x-amz-copy-source as "<bucket>/<key>": the bucket name
\* ends at the first slash
FirstSlash(src) ==
    CHOOSE i \in 1..Len(src) : src[i] = "/" /\ \A j \in 1..(i - 1) : src[j] # "/"

ParseCopySource(src) ==
    [bucket |-> SubSeq(src, 1, FirstSlash(src) - 1),
     key |-> SubSeq(src, FirstSlash(src) + 1, Len(src))]

\* copy_object: fails when the source names no object, and rejects a copy of
\* an object onto itself that changes nothing (InvalidRequest)
CopyObjectResponse(s, copy_source, bucket, key) ==
    LET src == ParseCopySource(copy_source) IN
    IF src.bucket \notin Buckets THEN Err("NoSuchBucket")
    ELSE IF src.key \notin Keys THEN Err("NoSuchKey")
    ELSE IF s[src.bucket][src.key] = None THEN Err("NoSuchKey")
    ELSE IF src.bucket = bucket /\ src.key = key THEN Err("InvalidRequest")
    ELSE OkUnit

CopyObject(s, copy_source, bucket, key) ==
    LET src == ParseCopySource(copy_source) IN
    [s EXCEPT ![bucket][key] = s[src.bucket][src.key]]

\* position of a key in the service's enumeration order
Pos(order, k) == CHOOSE i \in 1..Len(order) : order[i] = k

\* list_objects_v2: one page of at most pageSize keys with the prefix, taken
\* in the service's enumeration order after the continuation token
ListObjectsV2(s, bucket, prefix, token, order, pageSize) ==
    LET Listed(k) ==
            /\ s[bucket][k] # None
            /\ StartsWith(k, prefix)
            /\ (token = None \/ Pos(order, k) > Pos(order, token[1]))
        rest == SelectSeq(order, Listed)
        n == Min(pageSize, Len(rest))
    IN  [contents |-> SubSeq(rest, 1, n),
         truncated |-> Len(rest) > n,
         next |-> IF Len(rest) > n THEN Some(rest[n]) ELSE None]

\* the version ids the service holds under a prefix, in the order in which
\* it reports them
VersionHistories == {[i \in 1..n |-> i] : n \in 0..MaxVersions}

\* list_object_versions: one page of at most pageSize versions after the
\* (key marker, version-id marker) pair; the list of versions is absent from
\* a response that carries none
ListObjectVersions(history, prefix, marker, pageSize) ==
    LET start == IF marker = None THEN 1 ELSE Pos(history, marker[1].version_id) + 1
        rest == SubSeq(history, start, Len(history))
        n == Min(pageSize, Len(rest))
    IN  [versions |-> IF n = 0 THEN None ELSE Some(SubSeq(rest, 1, n)),
         is_truncated |-> Len(rest) > n,
         next_marker |-> IF Len(rest) > n
                         THEN Some([key |-> prefix, version_id |-> rest[n]])
                         ELSE None]

\* head_bucket: the bucket's ARN when the service reports one, NotFound for
\* a name that is no bucket
HeadBucket(s, name, bucket_arn) ==
    IF name \in DOMAIN s THEN Ok(bucket_arn) ELSE Err("NotFound")

\* a request sent to the service: its kind, the key it addresses and whether
\* the service answered it with success
Req(name, key, ok) == [req |-> name, key |-> key, ok |-> ok]

\* ------------------------------------------------------------------------
\* The facade: construction and the single-request operations.  Each
\* operator gives the result returned to the caller, the buckets afterwards
\* and the requests issued.  fault is the environment's choice that the
\* request fails in transport or service (the SDK returns Err); a request
\* that fails leaves the buckets as they are.
\* ------------------------------------------------------------------------

\* S3Facade::new that always builds the ARN from the name
NewMetadataFromName(name, description, bucket_arn) ==
    [id |-> [kind |-> "S3", arn |-> <<"arn:aws:s3:::">> \o name],
     name |-> name,
     description |-> description]

\* S3Facade::new after a successful head_bucket
NewMetadata(name, description, bucket_arn) ==
    [id |-> [kind |-> "S3",
             arn |-> IF bucket_arn # None THEN bucket_arn[1]
                     ELSE <<"arn:aws:s3:::">> \o name],
     name |-> name,
     description |-> description]

\* the names, descriptions and head_bucket answers S3Facade::new is tried with:
\* the two buckets, a name that is no bucket and the empty name; an empty and
\* a non-empty description; a response without and with a bucket ARN; a probe
\* that is answered, refused or lost
StoreNames == Buckets \cup {<<"z">>, <<>>}

Descriptions == {<<>>, <<"d">>}

BucketArns(name) == {None, Some(<<"arn:aws:s3express:r:1:bucket/">> \o name)}

ProbeFailures == {None, Some("Forbidden"), Some("Network")}

\* the state in which no facade value exists
NoMetadata == [id |-> [kind |-> "none", arn |-> <<>>], name |-> <<>>, description |-> <<>>]

\* S3Facade::new that builds the facade whatever head_bucket answered
new_ignoring_probe(s, name, description, bucket_arn, failure) ==
    [res |-> Ok(NewMetadata(name, description, None)),
     requests |-> <<Req("HeadBucket", name, failure = None /\ HeadBucket(s, name, bucket_arn).ok)>>]

\* S3Facade::new: one head_bucket request; its error is returned, its success
\* gives the facade with the metadata
new(s, name, description, bucket_arn, failure) ==
    LET result == HeadBucket(s, name, bucket_arn) IN
    IF failure # None
    THEN [res |-> Err(failure[1]), requests |-> <<Req("HeadBucket", name, FALSE)>>]
    ELSE IF ~result.ok
    THEN [res |-> Err(result.err), requests |-> <<Req("HeadBucket", name, FALSE)>>]
    ELSE [res |-> Ok(NewMetadata(name, description, result.val[1])),
          requests |-> <<Req("HeadBucket", name, TRUE)>>]

Outcome(res, s, requests) == [res |-> res, store |-> s, requests |-> requests]

\* the caller's bytes, whatever encrypt is
WriteDataBodyPlain(data, encrypt) == Ok(data)

\* the bytes write_data uploads
WriteDataBody(data, encrypt) ==
    IF encrypt # None THEN ApplyTransform(encrypt[1], data) ELSE Ok(data)

\* write_data that uploads the caller's bytes before it reports that the
\* encrypt transform failed
write_data_upload_first(s, name, path, data, encrypt, fault) ==
    LET body == WriteDataBody(data, encrypt) IN
    IF ~body.ok
    THEN Outcome(Err(body.err), PutObject(s, name, path, data), <<Req("PutObject", path, TRUE)>>)
    ELSE IF fault THEN Outcome(Err("Backend"), s, <<Req("PutObject", path, FALSE)>>)
    ELSE Outcome(OkUnit, PutObject(s, name, path, body.val[1]), <<Req("PutObject", path, TRUE)>>)

\* write_data that leaves an object already at the path as it is
write_data_keep_existing(s, name, path, data, encrypt, fault) ==
    LET body == WriteDataBody(data, encrypt) IN
    IF ~body.ok THEN Outcome(Err(body.err), s, <<>>)
    ELSE IF fault THEN Outcome(Err("Backend"), s, <<Req("PutObject", path, FALSE)>>)
    ELSE IF s[name][path] # None THEN Outcome(OkUnit, s, <<Req("PutObject", path, TRUE)>>)
    ELSE Outcome(OkUnit, PutObject(s, name, path, body.val[1]), <<Req("PutObject", path, TRUE)>>)

write_data(s, name, path, data, encrypt, fault) ==
    LET body == WriteDataBody(data, encrypt) IN
    IF ~body.ok THEN Outcome(Err(body.err), s, <<>>)
    ELSE IF fault THEN Outcome(Err("Backend"), s, <<Req("PutObject", path, FALSE)>>)
    ELSE Outcome(OkUnit, PutObject(s, name, path, body.val[1]), <<Req("PutObject", path, TRUE)>>)

\* read_data that answers a missing object with empty bytes
read_data_empty_on_missing(s, name, path, decrypt, fault) ==
    LET data == GetObject(s, name, path) IN
    IF fault THEN Outcome(Err("Backend"), s, <<Req("GetObject", path, FALSE)>>)
    ELSE IF ~data.ok THEN Outcome(Ok(<<>>), s, <<Req("GetObject", path, FALSE)>>)
    ELSE IF decrypt # None
         THEN Outcome(ApplyTransform(decrypt[1], data.val[1]), s, <<Req("GetObject", path, TRUE)>>)
         ELSE Outcome(Ok(data.val[1]), s, <<Req("GetObject", path, TRUE)>>)

\* read_data that falls back to the raw bytes when decrypt_fn fails
read_data_raw_on_failure(s, name, path, decrypt, fault) ==
    LET data == GetObject(s, name, path) IN
    IF fault THEN Outcome(Err("Backend"), s, <<Req("GetObject", path, FALSE)>>)
    ELSE IF ~data.ok THEN Outcome(Err(data.err), s, <<Req("GetObject", path, FALSE)>>)
    ELSE IF decrypt # None /\ ApplyTransform(decrypt[1], data.val[1]).ok
         THEN Outcome(ApplyTransform(decrypt[1], data.val[1]), s, <<Req("GetObject", path, TRUE)>>)
         ELSE Outcome(Ok(data.val[1]), s, <<Req("GetObject", path, TRUE)>>)

read_data(s, name, path, decrypt, fault) ==
    LET data == GetObject(s, name, path) IN
    IF fault THEN Outcome(Err("Backend"), s, <<Req("GetObject", path, FALSE)>>)
    ELSE IF ~data.ok THEN Outcome(Err(data.err), s, <<Req("GetObject", path, FALSE)>>)
    ELSE IF decrypt # None
         THEN Outcome(ApplyTransform(decrypt[1], data.val[1]), s, <<Req("GetObject", path, TRUE)>>)
         ELSE Outcome(Ok(data.val[1]), s, <<Req("GetObject", path, TRUE)>>)

\* delete_file that removes every object whose key starts with the path
delete_file_subtree(s, name, path, fault) ==
    IF fault THEN Outcome(Err("Backend"), s, <<Req("DeleteObject", path, FALSE)>>)
    ELSE Outcome(OkUnit,
                 [s EXCEPT ![name] = [k \in Keys |-> IF StartsWith(k, path) THEN None ELSE s[name][k]]],
                 <<Req("DeleteObject", path, TRUE)>>)

\* delete_file that sends the request a second time when the first failed
delete_file_retry(s, name, path, fault) ==
    IF fault
    THEN Outcome(OkUnit, DeleteObject(s, name, path),
                 <<Req("DeleteObject", path, FALSE), Req("DeleteObject", path, TRUE)>>)
    ELSE Outcome(OkUnit, DeleteObject(s, name, path), <<Req("DeleteObject", path, TRUE)>>)

\* delete_file that builds the request and never sends it
delete_file_not_sent(s, name, path, fault) == Outcome(OkUnit, s, <<>>)

\* delete_file that reports a missing object as an error
delete_file_strict(s, name, path, fault) ==
    IF fault THEN Outcome(Err("Backend"), s, <<Req("DeleteObject", path, FALSE)>>)
    ELSE IF s[name][path] = None
    THEN Outcome(Err("NoSuchKey"), s, <<Req("DeleteObject", path, FALSE)>>)
    ELSE Outcome(OkUnit, DeleteObject(s, name, path), <<Req("DeleteObject", path, TRUE)>>)

delete_file(s, name, path, fault) ==
    IF fault THEN Outcome(Err("Backend"), s, <<Req("DeleteObject", path, FALSE)>>)
    ELSE Outcome(OkUnit, DeleteObject(s, name, path), <<Req("DeleteObject", path, TRUE)>>)

\* a copy source in a bucket that is not the facade's
CopySourceOtherBucket(name, from) == OtherBucket \o <<"/">> \o from

\* format!("{}/{}", &self.metadata.name, from)
CopySource(name, from) == name \o <<"/">> \o from

copy_file(s, name, from, to, fault) ==
    LET response == CopyObjectResponse(s, CopySource(name, from), name, to) IN
    IF fault THEN Outcome(Err("Backend"), s, <<Req("CopyObject", to, FALSE)>>)
    ELSE IF ~response.ok THEN Outcome(Err(response.err), s, <<Req("CopyObject", to, FALSE)>>)
    ELSE Outcome(OkUnit, CopyObject(s, CopySource(name, from), name, to),
                 <<Req("CopyObject", to, TRUE)>>)

get_object_head(s, name, path, fault) ==
    IF fault THEN Err("Backend") ELSE HeadObject(s, name, path)

\* file_exists with the two branches exchanged
file_exists_inverted(s, name, path, fault) ==
    LET check == get_object_head(s, name, path, fault) IN
    IF check.ok THEN Outcome(Ok(FALSE), s, <<Req("HeadObject", path, TRUE)>>)
    ELSE Outcome(Ok(TRUE), s, <<Req("HeadObject", path, FALSE)>>)

file_exists(s, name, path, fault) ==
    LET check == get_object_head(s, name, path, fault) IN
    IF check.ok THEN Outcome(Ok(TRUE), s, <<Req("HeadObject", path, TRUE)>>)
    ELSE Outcome(Ok(FALSE), s, <<Req("HeadObject", path, FALSE)>>)

\* move_file run without interruption: copy_file, then delete_file of the
\* source if the copy succeeded
move_file(s, name, from, to, copy_fault, delete_fault) ==
    LET copied == copy_file(s, name, from, to, copy_fault)
        deleted == delete_file(copied.store, name, from, delete_fault)
    IN  IF ~copied.res.ok THEN copied
        ELSE Outcome(deleted.res, deleted.store, copied.requests \o deleted.requests)

\* metadata() that hands out a record without the description
MetadataRefBlank(meta) == [meta EXCEPT !.description = <<>>]

\* metadata(): a reference to the record the facade was built with
MetadataRef(meta) == meta

\* ------------------------------------------------------------------------
\* State
\* ------------------------------------------------------------------------

\* the record of a call: what was asked, what was returned, which requests
\* were sent to the service
Call(op, path, to, data, transform, res, requests) ==
    [op |-> op, path |-> path, to |-> to, data |-> data, transform |-> transform,
     res |-> res, requests |-> requests]

NoCall == Call("none", <<>>, <<>>, <<>>, None, OkUnit, <<>>)

\* the position of a caller inside move_file or list_objects
Progress(op, path, to, token, acc, order, pageSize, requests) ==
    [op |-> op, path |-> path, to |-> to, token |-> token, acc |-> acc,
     order |-> order, pageSize |-> pageSize, requests |-> requests]

NoProgress == Progress("none", <<>>, <<>>, None, <<>>, <<>>, 0, <<>>)

\* the facade's bucket at construction: nothing under the callers' paths
InitialBuckets == {b \in [Keys -> {None, Some(<<>>)}] : \A k \in Paths : b[k] = None}

\* the other bucket holds an object under every key the callers use
ForeignBucket == [k \in Keys |-> Some(<<1>>)]

InitCommon ==
    /\ \E own \in InitialBuckets :
          store = [b \in Buckets |-> IF b = BucketName THEN own ELSE ForeignBucket]
    /\ store0 = store
    /\ metadata = NewMetadata(BucketName, <<"d">>, None)
    /\ pc = [c \in Callers |-> "idle"]
    /\ cur = [c \in Callers |-> NoProgress]
    /\ last = [c \in Callers |-> NoCall]
    /\ pre = [c \in Callers |-> store]

\* one caller: the operations of the facade run one after another
Init ==
    /\ active = {1}
    /\ scope = [c \in Callers |-> Paths]
    /\ InitCommon

\* a bucket content: any object or none under the first path, an empty
\* object or none under every other key
BucketContents ==
    {b \in [Keys -> {None} \cup {Some(d) : d \in Data}] :
        \A k \in Keys \ {<<"a">>} : b[k] \in {None, Some(<<>>)}}

\* two callers hold the facade, the bucket holds anything
InitShared ==
    /\ active = {1, 2}
    /\ \E own \in BucketContents :
          store = [b \in Buckets |-> IF b = BucketName THEN own ELSE ForeignBucket]
    /\ store0 = store
    /\ metadata = NewMetadata(BucketName, <<"d">>, None)
    /\ pc = [c \in Callers |-> "idle"]
    /\ cur = [c \in Callers |-> NoProgress]
    /\ last = [c \in Callers |-> NoCall]
    /\ pre = [c \in Callers |-> store]

\* both callers use the same paths
InitRace ==
    /\ scope = [c \in Callers |-> Paths]
    /\ InitShared

\* the callers use paths that have no key in common
InitDisjoint ==
    /\ scope = [c \in Callers |-> IF c = 1 THEN Paths ELSE Keys \ Paths]
    /\ InitShared

\* before construction: no facade value exists and nobody holds one; one
\* caller constructs the facade and uses it
InitNew ==
    /\ active = {}
    /\ scope = [c \in Callers |-> IF c = 1 THEN Paths ELSE {}]
    /\ \E own \in InitialBuckets :
          store = [b \in Buckets |-> IF b = BucketName THEN own ELSE ForeignBucket]
    /\ store0 = store
    /\ metadata = NoMetadata
    /\ pc = [c \in Callers |-> "idle"]
    /\ cur = [c \in Callers |-> NoProgress]
    /\ last = [c \in Callers |-> NoCall]
    /\ pre = [c \in Callers |-> store]

Idle(c) == c \in active /\ pc[c] = "idle"

\* a call that completes in the step that starts it
Complete(c, call, out) ==
    /\ store' = out.store
    /\ last' = [last EXCEPT ![c] = call]
    /\ pre' = [pre EXCEPT ![c] = store]
    /\ UNCHANGED <<store0, metadata, active, scope, pc, cur>>

\* ------------------------------------------------------------------------
\* Operations
\* ------------------------------------------------------------------------

WriteData(c) ==
    \E path \in scope[c], data \in Data, encrypt \in TransformOptions, fault \in BOOLEAN :
        LET out == write_data(store, metadata.name, path, data, encrypt, fault) IN
        /\ Idle(c)
        /\ Complete(c, Call("write_data", path, <<>>, data, encrypt, out.res, out.requests), out)

ReadData(c) ==
    \E path \in scope[c], decrypt \in TransformOptions, fault \in BOOLEAN :
        LET out == read_data(store, metadata.name, path, decrypt, fault) IN
        /\ Idle(c)
        /\ Complete(c, Call("read_data", path, <<>>, <<>>, decrypt, out.res, out.requests), out)

DeleteFile(c) ==
    \E path \in scope[c], fault \in BOOLEAN :
        LET out == delete_file(store, metadata.name, path, fault) IN
        /\ Idle(c)
        /\ Complete(c, Call("delete_file", path, <<>>, <<>>, None, out.res, out.requests), out)

CopyFile(c) ==
    \E from \in scope[c], to \in scope[c], fault \in BOOLEAN :
        LET out == copy_file(store, metadata.name, from, to, fault) IN
        /\ Idle(c)
        /\ Complete(c, Call("copy_file", from, to, <<>>, None, out.res, out.requests), out)

FileExists(c) ==
    \E path \in scope[c], fault \in BOOLEAN :
        LET out == file_exists(store, metadata.name, path, fault) IN
        /\ Idle(c)
        /\ Complete(c, Call("file_exists", path, <<>>, <<>>, None, out.res, out.requests), out)

\* move_file whose first half does not return when copy_file fails
MoveFileCopyNoAbort(c) ==
    \E from \in scope[c], to \in scope[c], fault \in BOOLEAN :
        LET out == copy_file(store, metadata.name, from, to, fault) IN
        /\ Idle(c)
        /\ store' = out.store
        /\ pre' = [pre EXCEPT ![c] = store]
        /\ pc' = [pc EXCEPT ![c] = "move_delete"]
        /\ cur' = [cur EXCEPT ![c] =
                      Progress("move_file", from, to, None, <<>>, <<>>, 0, out.requests)]
        /\ last' = [last EXCEPT ![c] = NoCall]
        /\ UNCHANGED <<store0, metadata, active, scope>>

\* move_file, first half: self.copy_file(from, to).await?
MoveFileCopy(c) ==
    \E from \in scope[c], to \in scope[c], fault \in BOOLEAN :
        LET out == copy_file(store, metadata.name, from, to, fault) IN
        /\ Idle(c)
        /\ store' = out.store
        /\ pre' = [pre EXCEPT ![c] = store]
        /\ IF out.res.ok
           THEN /\ pc' = [pc EXCEPT ![c] = "move_delete"]
                /\ cur' = [cur EXCEPT ![c] =
                              Progress("move_file", from, to, None, <<>>, <<>>, 0, out.requests)]
                /\ last' = [last EXCEPT ![c] = NoCall]
           ELSE /\ last' = [last EXCEPT ![c] =
                               Call("move_file", from, to, <<>>, None, out.res, out.requests)]
                /\ UNCHANGED <<pc, cur>>
        /\ UNCHANGED <<store0, metadata, active, scope>>

\* move_file whose second half deletes the destination
MoveFileDeleteDest(c) ==
    \E fault \in BOOLEAN :
        LET out == delete_file(store, metadata.name, cur[c].to, fault) IN
        /\ c \in active
        /\ pc[c] = "move_delete"
        /\ store' = out.store
        /\ last' = [last EXCEPT ![c] =
                       Call("move_file", cur[c].path, cur[c].to, <<>>, None, out.res,
                            cur[c].requests \o out.requests)]
        /\ pc' = [pc EXCEPT ![c] = "idle"]
        /\ cur' = [cur EXCEPT ![c] = NoProgress]
        /\ UNCHANGED <<store0, metadata, active, scope, pre>>

\* move_file that removes the copy again when the delete of the source fails
MoveFileDeleteRollback(c) ==
    \E fault \in BOOLEAN :
        LET out == delete_file(store, metadata.name, cur[c].path, fault)
            undo == delete_file(store, metadata.name, cur[c].to, FALSE)
        IN
        /\ c \in active
        /\ pc[c] = "move_delete"
        /\ store' = IF out.res.ok THEN out.store ELSE undo.store
        /\ last' = [last EXCEPT ![c] =
                       Call("move_file", cur[c].path, cur[c].to, <<>>, None, out.res,
                            IF out.res.ok THEN cur[c].requests \o out.requests
                            ELSE cur[c].requests \o out.requests \o undo.requests)]
        /\ pc' = [pc EXCEPT ![c] = "idle"]
        /\ cur' = [cur EXCEPT ![c] = NoProgress]
        /\ UNCHANGED <<store0, metadata, active, scope, pre>>

\* move_file whose second half deletes the source only while it still holds
\* what was copied
MoveFileDeleteIfUnchanged(c) ==
    \E fault \in BOOLEAN :
        LET unchanged == store[metadata.name][cur[c].path] = store[metadata.name][cur[c].to]
            out == IF unchanged THEN delete_file(store, metadata.name, cur[c].path, fault)
                   ELSE Outcome(OkUnit, store, <<>>)
        IN
        /\ c \in active
        /\ pc[c] = "move_delete"
        /\ store' = out.store
        /\ last' = [last EXCEPT ![c] =
                       Call("move_file", cur[c].path, cur[c].to, <<>>, None, out.res,
                            cur[c].requests \o out.requests)]
        /\ pc' = [pc EXCEPT ![c] = "idle"]
        /\ cur' = [cur EXCEPT ![c] = NoProgress]
        /\ UNCHANGED <<store0, metadata, active, scope, pre>>

\* move_file whose second half deletes the key another caller addressed last,
\* as a facade would that kept the path of the running call in a shared field
MoveFileDeleteShared(c) ==
    \E fault \in BOOLEAN :
        LET others == {d \in active \ {c} : last[d].op \in {"write_data", "read_data",
                                                           "delete_file", "file_exists"}}
            target == IF others # {} THEN last[CHOOSE d \in others : TRUE].path ELSE cur[c].path
            out == delete_file(store, metadata.name, target, fault)
        IN
        /\ c \in active
        /\ pc[c] = "move_delete"
        /\ store' = out.store
        /\ last' = [last EXCEPT ![c] =
                       Call("move_file", cur[c].path, cur[c].to, <<>>, None, out.res,
                            cur[c].requests \o out.requests)]
        /\ pc' = [pc EXCEPT ![c] = "idle"]
        /\ cur' = [cur EXCEPT ![c] = NoProgress]
        /\ UNCHANGED <<store0, metadata, active, scope, pre>>

\* move_file, second half: self.delete_file(from).await?
MoveFileDelete(c) ==
    \E fault \in BOOLEAN :
        LET out == delete_file(store, metadata.name, cur[c].path, fault) IN
        /\ c \in active
        /\ pc[c] = "move_delete"
        /\ store' = out.store
        /\ last' = [last EXCEPT ![c] =
                       Call("move_file", cur[c].path, cur[c].to, <<>>, None, out.res,
                            cur[c].requests \o out.requests)]
        /\ pc' = [pc EXCEPT ![c] = "idle"]
        /\ cur' = [cur EXCEPT ![c] = NoProgress]
        /\ UNCHANGED <<store0, metadata, active, scope, pre>>

\* only the keys of the page fetched last
PageKeysLastOnly(acc, page) == page.contents

\* the keys of the pages collected so far
PageKeys(acc, page) == acc \o page.contents

\* one step of the paginator of list_objects: the page is fetched; a failed
\* fetch ends the call with Err, the last page ends it with the sorted keys
ListFetch(c, prefix, token, acc, order, pageSize, requests, fault) ==
    LET page == ListObjectsV2(store, metadata.name, prefix, token, order, pageSize) IN
    IF fault
    THEN /\ last' = [last EXCEPT ![c] =
                        Call("list_objects", prefix, <<>>, <<>>, None, Err("Backend"),
                             Append(requests, Req("ListObjectsV2", prefix, FALSE)))]
         /\ pc' = [pc EXCEPT ![c] = "idle"]
         /\ cur' = [cur EXCEPT ![c] = NoProgress]
    ELSE IF page.truncated
    THEN /\ pc' = [pc EXCEPT ![c] = "list_page"]
         /\ cur' = [cur EXCEPT ![c] =
                       Progress("list_objects", prefix, <<>>, page.next, PageKeys(acc, page),
                                order, pageSize, Append(requests, Req("ListObjectsV2", prefix, TRUE)))]
         /\ last' = [last EXCEPT ![c] = NoCall]
    ELSE /\ last' = [last EXCEPT ![c] =
                        Call("list_objects", prefix, <<>>, <<>>, None,
                             Ok(SortKeys(PageKeys(acc, page))),
                             Append(requests, Req("ListObjectsV2", prefix, TRUE)))]
         /\ pc' = [pc EXCEPT ![c] = "idle"]
         /\ cur' = [cur EXCEPT ![c] = NoProgress]

\* list_objects, first page
ListObjectsStart(c) ==
    \E prefix \in Prefixes, order \in KeyOrders(Keys), pageSize \in 1..MaxPageSize,
       fault \in BOOLEAN :
        /\ Idle(c)
        /\ ListFetch(c, prefix, None, <<>>, order, pageSize, <<>>, fault)
        /\ pre' = [pre EXCEPT ![c] = store]
        /\ UNCHANGED <<store, store0, metadata, active, scope>>

\* list_objects, every further page
ListObjectsNextPage(c) ==
    \E fault \in BOOLEAN :
        /\ c \in active
        /\ pc[c] = "list_page"
        /\ ListFetch(c, cur[c].path, cur[c].token, cur[c].acc, cur[c].order,
                     cur[c].pageSize, cur[c].requests, fault)
        /\ UNCHANGED <<store, store0, metadata, active, scope, pre>>

\* one request of list_object_versions. A failed request ends the call with
\* Err. The first response is unwrapped (line 198) and panics when it carries
\* no list of versions; further responses are appended while the service
\* reports truncation; after the last page the function reaches todo!()
\* (line 218) and panics. A panic ends the call without a value.
VersionsFetch(c, file_path, marker, acc, history, pageSize, requests, fault) ==
    LET page == ListObjectVersions(history, file_path, marker, pageSize)
        sent == Append(requests, Req("ListObjectVersions", file_path, ~fault))
        first == requests = <<>>
        Ends(res) ==
            /\ last' = [last EXCEPT ![c] =
                           Call("list_object_versions", file_path, <<>>, history, None, res, sent)]
            /\ pc' = [pc EXCEPT ![c] = "idle"]
            /\ cur' = [cur EXCEPT ![c] = NoProgress]
    IN
    IF fault THEN Ends(Err("Backend"))
    ELSE IF first /\ page.versions = None THEN Ends(Err("PanicUnwrapNone"))
    ELSE IF page.is_truncated
    THEN /\ pc' = [pc EXCEPT ![c] = "versions_page"]
         /\ cur' = [cur EXCEPT ![c] =
                       Progress("list_object_versions", file_path, <<>>, page.next_marker,
                                IF page.versions = None THEN acc ELSE acc \o page.versions[1],
                                history, pageSize, sent)]
         /\ last' = [last EXCEPT ![c] = NoCall]
    ELSE Ends(Err("PanicTodo"))

\* list_object_versions, first request
ListObjectVersionsStart(c) ==
    \E file_path \in scope[c], history \in VersionHistories, pageSize \in 1..MaxPageSize,
       fault \in BOOLEAN :
        /\ Idle(c)
        /\ VersionsFetch(c, file_path, None, <<>>, history, pageSize, <<>>, fault)
        /\ pre' = [pre EXCEPT ![c] = store]
        /\ UNCHANGED <<store, store0, metadata, active, scope>>

\* list_object_versions, every request of the while loop
ListObjectVersionsNextPage(c) ==
    \E fault \in BOOLEAN :
        /\ c \in active
        /\ pc[c] = "versions_page"
        /\ VersionsFetch(c, cur[c].path, cur[c].token, cur[c].acc, cur[c].order,
                         cur[c].pageSize, cur[c].requests, fault)
        /\ UNCHANGED <<store, store0, metadata, active, scope, pre>>

\* metadata(): no request is sent
Metadata(c) ==
    /\ Idle(c)
    /\ Complete(c, Call("metadata", <<>>, <<>>, <<>>, None, Ok(MetadataRef(metadata)), <<>>),
                Outcome(Ok(MetadataRef(metadata)), store, <<>>))

\* S3Facade::new, called while no facade exists: on Ok the caller holds the
\* facade, on Err there is none
New(c) ==
    \E name \in StoreNames, description \in Descriptions, failure \in ProbeFailures :
        \E bucket_arn \in BucketArns(name) :
            LET out == new(store, name, description, bucket_arn, failure) IN
            /\ active = {}
            /\ scope[c] # {}
            /\ pc[c] = "idle"
            /\ last' = [last EXCEPT ![c] =
                           Call("new", name, description, bucket_arn, failure, out.res, out.requests)]
            /\ pre' = [pre EXCEPT ![c] = store]
            /\ metadata' = IF out.res.ok THEN out.res.val[1] ELSE metadata
            /\ active' = IF out.res.ok THEN {c} ELSE active
            /\ UNCHANGED <<store, store0, scope, pc, cur>>

Next ==
    \E c \in Callers :
        \/ WriteData(c)
        \/ ReadData(c)
        \/ DeleteFile(c)
        \/ CopyFile(c)
        \/ FileExists(c)
        \/ MoveFileCopy(c)
        \/ MoveFileDelete(c)
        \/ ListObjectsStart(c)
        \/ ListObjectsNextPage(c)
        \/ Metadata(c)
        \/ ListObjectVersionsStart(c)
        \/ ListObjectVersionsNextPage(c)

Spec == Init /\ [][Next]_vars

\* construction followed by operations on the facade it returned
NextNew ==
    \E c \in Callers :
        \/ New(c)
        \/ Metadata(c)
        \/ FileExists(c)
        \/ ReadData(c)
        \/ DeleteFile(c)

SpecNew == InitNew /\ [][NextNew]_vars

\* a caller that holds the facade and has not called it yet
Fresh(c) == Idle(c) /\ last[c] = NoCall

\* every caller makes one call; the requests of the calls interleave
NextOnce ==
    \E c \in Callers :
        \/ Fresh(c) /\ WriteData(c)
        \/ Fresh(c) /\ ReadData(c)
        \/ Fresh(c) /\ DeleteFile(c)
        \/ Fresh(c) /\ CopyFile(c)
        \/ Fresh(c) /\ FileExists(c)
        \/ Fresh(c) /\ Metadata(c)
        \/ Fresh(c) /\ MoveFileCopy(c)
        \/ MoveFileDelete(c)

SpecRace == InitRace /\ [][NextOnce]_vars

SpecDisjoint == InitDisjoint /\ [][NextOnce]_vars

\* ------------------------------------------------------------------------
\* Properties
\* ------------------------------------------------------------------------

\* the facade's bucket now, and when the last call of caller c started
Bucket == store[metadata.name]

PreBucket(c) == pre[c][metadata.name]

\* what the observing operations return in the current state when the
\* service answers the request
ReadNow(path, decrypt) == read_data(store, metadata.name, path, decrypt, FALSE).res

ExistsNow(path) == file_exists(store, metadata.name, path, FALSE).res.val[1]

Returned(c, op) == c \in active /\ pc[c] = "idle" /\ last[c].op = op

\* C1, in every state: after write_data(p, d, None) returned Ok, whatever p
\* held before, read_data(p, None) returns Ok with exactly d.
RoundTripState ==
    \A c \in Callers :
        (Returned(c, "write_data") /\ last[c].res.ok /\ last[c].transform = None)
            => ReadNow(last[c].path, None) = Ok(last[c].data)

\* C1, in every step: a read_data(p, None) that directly follows a successful
\* write_data(p, d, None) and is answered by the service returns Ok(d).
RoundTripStep ==
    \A c \in Callers :
        (/\ Returned(c, "write_data") /\ last[c].res.ok /\ last[c].transform = None
         /\ pc'[c] = "idle" /\ last'[c].op = "read_data"
         /\ last'[c].path = last[c].path /\ last'[c].transform = None
         /\ last'[c].res.err # "Backend")
            => last'[c].res = Ok(last[c].data)

\* C1: write_data(p, d, None) followed by read_data(p, None) returns d, for
\* every earlier content of p; the last write wins.
RoundTrip == []RoundTripState /\ [][RoundTripStep]_vars

\* a successful plain write has replaced different content
RoundTripWitness ==
    \E c \in Callers :
        /\ Returned(c, "write_data") /\ last[c].res.ok /\ last[c].transform = None
        /\ PreBucket(c)[last[c].path] # None
        /\ PreBucket(c)[last[c].path] # Some(last[c].data)
        /\ ReadNow(last[c].path, None) = Ok(last[c].data)

\* C2: after move_file(from, to) returned Ok, from held content when the call
\* started, file_exists(from) is false, file_exists(to) is true and
\* read_data(to, None) returns the content from held.
MoveSemantics ==
    \A c \in Callers :
        (Returned(c, "move_file") /\ last[c].res.ok)
            => /\ PreBucket(c)[last[c].path] # None
               /\ ~ExistsNow(last[c].path)
               /\ ExistsNow(last[c].to)
               /\ ReadNow(last[c].to, None) = Ok(PreBucket(c)[last[c].path][1])

\* a successful move has replaced different content at the destination
MoveSemanticsWitness ==
    \E c \in Callers :
        /\ Returned(c, "move_file") /\ last[c].res.ok
        /\ PreBucket(c)[last[c].to] # None
        /\ PreBucket(c)[last[c].to] # PreBucket(c)[last[c].path]
        /\ ~ExistsNow(last[c].path)

\* C3: move_file sends the copy request first and the delete request second;
\* when the copy fails the call returns the error, no delete request is sent
\* and the object at from is as it was.
MoveCopyThenDelete ==
    \A c \in Callers :
        /\ (c \in active /\ pc[c] = "move_delete")
              => cur[c].requests = <<Req("CopyObject", cur[c].to, TRUE)>>
        /\ Returned(c, "move_file")
              => LET requests == last[c].requests IN
                 /\ Len(requests) \in {1, 2}
                 /\ requests[1].req = "CopyObject" /\ requests[1].key = last[c].to
                 /\ Len(requests) = 2
                       => /\ requests[1].ok
                          /\ requests[2] = Req("DeleteObject", last[c].path, last[c].res.ok)
                 /\ ~requests[1].ok
                       => /\ ~last[c].res.ok
                          /\ Len(requests) = 1
                          /\ Bucket[last[c].path] = PreBucket(c)[last[c].path]
                          /\ store = pre[c]

\* a move whose copy of an existing object failed
MoveCopyThenDeleteWitness ==
    \E c \in Callers :
        /\ Returned(c, "move_file")
        /\ ~last[c].requests[1].ok
        /\ PreBucket(c)[last[c].path] # None
        /\ last[c].path # last[c].to

\* C4: when the copy of move_file(from, to) succeeded and the delete failed,
\* move_file returns the error, from and to both hold the content from held,
\* and no request other than the copy and the one delete of from was sent.
MoveDeleteFails ==
    \A c \in Callers :
        (/\ Returned(c, "move_file")
         /\ Len(last[c].requests) >= 2
         /\ last[c].requests[1].ok /\ ~last[c].requests[2].ok)
            => /\ ~last[c].res.ok
               /\ PreBucket(c)[last[c].path] # None
               /\ Bucket[last[c].path] = PreBucket(c)[last[c].path]
               /\ Bucket[last[c].to] = PreBucket(c)[last[c].path]
               /\ ExistsNow(last[c].path) /\ ExistsNow(last[c].to)
               /\ ReadNow(last[c].path, None) = ReadNow(last[c].to, None)
               /\ last[c].requests = <<Req("CopyObject", last[c].to, TRUE),
                                       Req("DeleteObject", last[c].path, FALSE)>>

\* a move that copied over different content and then failed to delete
MoveDeleteFailsWitness ==
    \E c \in Callers :
        /\ Returned(c, "move_file")
        /\ Len(last[c].requests) = 2 /\ ~last[c].requests[2].ok
        /\ PreBucket(c)[last[c].to] # None
        /\ PreBucket(c)[last[c].to] # PreBucket(c)[last[c].path]
        /\ ExistsNow(last[c].to)

\* the operation of caller c that the step completes or continues stores an
\* object at path p: write_data(p, _), copy_file(_, p) or move_file(_, p)
StoresAt(c, p) ==
    \/ pc'[c] = "idle" /\ last'[c].op = "write_data" /\ last'[c].path = p
    \/ pc'[c] = "idle" /\ last'[c].op \in {"copy_file", "move_file"} /\ last'[c].to = p
    \/ pc'[c] = "move_delete" /\ cur'[c].to = p

\* C5, in every state: file_exists(p) is true right after a successful
\* write_data(p, _) and false right after a successful delete_file(p).
ExistenceState ==
    \A c \in Callers :
        /\ (Returned(c, "write_data") /\ last[c].res.ok) => ExistsNow(last[c].path)
        /\ (Returned(c, "delete_file") /\ last[c].res.ok) => ~ExistsNow(last[c].path)

\* C5, in every step: file_exists(p) turns from false to true only in a step
\* of an operation that stores an object at p itself.
ExistenceStep ==
    \A p \in Paths :
        (~ExistsNow(p) /\ file_exists(store', metadata.name, p, FALSE).res.val[1])
            => \E c \in Callers : StoresAt(c, p)

\* no path the callers use holds an object when the facade is constructed
ExistenceInit == \A p \in Paths : ~ExistsNow(p)

\* C5: file_exists(p) is false until an operation stores an object at p, true
\* right after a successful write_data(p, _), false right after a successful
\* delete_file(p); storing at one path never makes another path exist.
ExistenceLifecycle == ExistenceInit /\ []ExistenceState /\ [][ExistenceStep]_vars

\* an object was written and deleted again while the other path never existed
ExistenceLifecycleWitness ==
    \E c \in Callers :
        /\ Returned(c, "delete_file") /\ last[c].res.ok
        /\ PreBucket(c)[last[c].path] # None
        /\ \A p \in Paths : ~ExistsNow(p)

\* the keys of the facade's bucket that start with the prefix
Matching(prefix) == {k \in Keys : Bucket[k] # None /\ StartsWith(k, prefix)}

Range(seq) == {seq[i] : i \in 1..Len(seq)}

\* C6: a successful list_objects(prefix) returns exactly the keys in the
\* bucket that start with prefix, nested ones included, each once, in
\* ascending lexicographic order whatever order the service enumerates them
\* in; when no key matches the call still succeeds, with an empty sequence.
ListCompleteOrdered ==
    \A c \in Callers :
        Returned(c, "list_objects")
            => /\ last[c].res.ok \/ last[c].res.err = "Backend"
               /\ last[c].res.ok
                     => LET keys == last[c].res.val[1] IN
                        /\ Range(keys) = Matching(last[c].path)
                        /\ Len(keys) = Cardinality(Matching(last[c].path))
                        /\ \A i, j \in 1..Len(keys) : i < j => StrLess(keys[i], keys[j])
                        /\ Matching(last[c].path) = {} => keys = <<>>

\* a listing of three keys, one of them nested, and a listing of none
ListCompleteOrderedWitness ==
    \E c \in Callers :
        /\ Returned(c, "list_objects") /\ last[c].res.ok
        /\ last[c].res.val[1] = <<<<"a">>, <<"a", "/", "b">>, <<"b">>>>

\* a listing that matched no key
ListEmptyWitness ==
    \E c \in Callers :
        /\ Returned(c, "list_objects") /\ last[c].res.ok
        /\ last[c].res.val[1] = <<>>
        /\ \E k \in Keys : Bucket[k] # None

\* the listing the service gives in one page, for an enumeration order
Unpaginated(prefix, order) ==
    ListObjectsV2(store, metadata.name, prefix, None, order, Cardinality(Keys)).contents

\* C7: list_objects returns only after the last page; its result is the
\* result of one unpaginated listing, for every page size and number of
\* pages; when a page fetch fails the result is an error and carries no keys.
ListPagination ==
    \A c \in Callers :
        /\ (c \in active /\ pc[c] = "list_page")
              => /\ cur[c].token # None
                 /\ \A i \in 1..Len(cur[c].requests) : cur[c].requests[i].ok
        /\ Returned(c, "list_objects")
              => LET requests == last[c].requests IN
                 /\ \A i \in 1..(Len(requests) - 1) : requests[i].ok
                 /\ last[c].res.ok = requests[Len(requests)].ok
                 /\ last[c].res.ok
                       => \A order \in KeyOrders(Keys) :
                             /\ ~ListObjectsV2(store, metadata.name, last[c].path, None,
                                               order, Cardinality(Keys)).truncated
                             /\ last[c].res.val[1] = SortKeys(Unpaginated(last[c].path, order))
                 /\ ~last[c].res.ok => last[c].res = Err("Backend")

\* a listing of three keys that took three pages
ListPaginationWitness ==
    \E c \in Callers :
        /\ Returned(c, "list_objects") /\ last[c].res.ok
        /\ Len(last[c].requests) = 3
        /\ Len(last[c].res.val[1]) = 3

\* a listing that failed on its second page
ListPageFailsWitness ==
    \E c \in Callers :
        /\ Returned(c, "list_objects") /\ ~last[c].res.ok
        /\ Len(last[c].requests) = 2

\* C8: after copy_file(from, to) returned Ok, from held content when the call
\* started, from and to both exist, read_data returns that content for both,
\* whatever to held is replaced, and source and destination are in the
\* facade's own bucket: no other bucket is read or changed.
CopySemantics ==
    \A c \in Callers :
        (Returned(c, "copy_file") /\ last[c].res.ok)
            => /\ PreBucket(c)[last[c].path] # None
               /\ ExistsNow(last[c].path) /\ ExistsNow(last[c].to)
               /\ ReadNow(last[c].path, None) = Ok(PreBucket(c)[last[c].path][1])
               /\ ReadNow(last[c].to, None) = Ok(PreBucket(c)[last[c].path][1])
               /\ ParseCopySource(CopySource(metadata.name, last[c].path))
                     = [bucket |-> metadata.name, key |-> last[c].path]
               /\ last[c].requests = <<Req("CopyObject", last[c].to, TRUE)>>
               /\ \A b \in Buckets \ {metadata.name} : store[b] = pre[c][b]

\* a copy that replaced different content, of a source whose content differs
\* from the object of the same key in the other bucket
CopySemanticsWitness ==
    \E c \in Callers :
        /\ Returned(c, "copy_file") /\ last[c].res.ok
        /\ PreBucket(c)[last[c].to] # None
        /\ PreBucket(c)[last[c].to] # PreBucket(c)[last[c].path]
        /\ PreBucket(c)[last[c].path] # pre[c][OtherBucket][last[c].path]
        /\ Bucket[last[c].to] = PreBucket(c)[last[c].path]

\* C9, in every state: a delete_file(p) that the service answers returns Ok,
\* also when p holds no object, and afterwards p does not exist.
IdempotentDeleteState ==
    \A c \in Callers :
        Returned(c, "delete_file")
            => /\ last[c].res.ok \/ last[c].res.err = "Backend"
               /\ last[c].res.ok => ~ExistsNow(last[c].path)
               /\ PreBucket(c)[last[c].path] = None => store = pre[c]

\* C9, in every step: a delete_file(p) that directly follows a successful
\* delete_file(p) and is answered by the service returns Ok.
IdempotentDeleteStep ==
    \A c \in Callers :
        (/\ Returned(c, "delete_file") /\ last[c].res.ok
         /\ pc'[c] = "idle" /\ last'[c].op = "delete_file"
         /\ last'[c].path = last[c].path
         /\ last'[c].res.err # "Backend")
            => last'[c].res.ok /\ store'[metadata.name][last[c].path] = None

\* C9: delete_file of a path that holds no object returns Ok, so both calls
\* of delete_file(p); delete_file(p) return Ok, and p does not exist after
\* either.
IdempotentDelete == []IdempotentDeleteState /\ [][IdempotentDeleteStep]_vars

\* a successful delete of a path that held no object
IdempotentDeleteWitness ==
    \E c \in Callers :
        /\ Returned(c, "delete_file") /\ last[c].res.ok
        /\ PreBucket(c)[last[c].path] = None
        /\ \E p \in Paths : Bucket[p] # None

\* dec undoes enc on every byte sequence
InversePair(enc, dec) ==
    \A x \in Data :
        /\ ApplyTransform(enc, x).ok
        /\ ApplyTransform(dec, ApplyTransform(enc, x).val[1]) = Ok(x)

IsIdentity(enc) == \A x \in Data : ApplyTransform(enc, x) = Ok(x)

\* C10 as claimed: after write_data(p, d, Some(enc)), read_data(p, Some(dec))
\* returns d for every dec that undoes enc, and read_data(p, None) returns
\* bytes that differ from d whenever enc is not the identity function.
EncryptionRoundTripAsClaimed ==
    \A c \in Callers :
        (Returned(c, "write_data") /\ last[c].res.ok /\ last[c].transform # None)
            => /\ \A dec \in Transforms :
                     InversePair(last[c].transform[1], dec)
                        => ReadNow(last[c].path, Some(dec)) = Ok(last[c].data)
               /\ ~IsIdentity(last[c].transform[1])
                     => ReadNow(last[c].path, None) # Ok(last[c].data)

\* C10: after write_data(p, d, Some(enc)), read_data(p, Some(dec)) returns d
\* for every dec that undoes enc, and read_data(p, None) returns enc(d), which
\* differs from d exactly when enc(d) differs from d; under the XOR transform
\* that is every d but the empty one.
EncryptionRoundTrip ==
    \A c \in Callers :
        (Returned(c, "write_data") /\ last[c].res.ok /\ last[c].transform # None)
            => /\ \A dec \in Transforms :
                     InversePair(last[c].transform[1], dec)
                        => ReadNow(last[c].path, Some(dec)) = Ok(last[c].data)
               /\ ReadNow(last[c].path, None) = ApplyTransform(last[c].transform[1], last[c].data)
               /\ (last[c].transform[1] = "xor" /\ last[c].data # <<>>)
                     => ReadNow(last[c].path, None) # Ok(last[c].data)

\* an encrypted write whose stored bytes differ from the caller's
EncryptionRoundTripWitness ==
    \E c \in Callers :
        /\ Returned(c, "write_data") /\ last[c].res.ok
        /\ last[c].transform = Some("xor")
        /\ last[c].data # <<>>
        /\ ReadNow(last[c].path, None) # Ok(last[c].data)
        /\ ReadNow(last[c].path, Some("xor")) = Ok(last[c].data)

\* C11: file_exists never returns an error. It sends one head-object request
\* and returns true when that request succeeded and false when it failed,
\* whatever the failure; true is returned only for a path that holds an object.
FileExistsNeverFails ==
    \A c \in Callers :
        Returned(c, "file_exists")
            => /\ last[c].res.ok
               /\ last[c].res.val \in {<<TRUE>>, <<FALSE>>}
               /\ Len(last[c].requests) = 1
               /\ last[c].requests[1].req = "HeadObject"
               /\ last[c].requests[1].key = last[c].path
               /\ last[c].res.val[1] = last[c].requests[1].ok
               /\ last[c].res.val[1] => Bucket[last[c].path] # None
               /\ Bucket[last[c].path] = None => ~last[c].res.val[1]

\* file_exists returned false for a path that holds an object: the probe
\* failed for another reason than absence
FileExistsNeverFailsWitness ==
    \E c \in Callers :
        /\ Returned(c, "file_exists")
        /\ last[c].res = Ok(FALSE)
        /\ Bucket[last[c].path] # None

\* C13: when read_data is given a decrypt transform and the object was
\* fetched, the result is the transform applied once to the whole stored
\* body; when the transform fails the result is the transform's error and
\* carries no bytes.
DecryptOnce ==
    \A c \in Callers :
        (Returned(c, "read_data") /\ last[c].transform # None /\ last[c].requests[1].ok)
            => /\ Bucket[last[c].path] # None
               /\ last[c].res = ApplyTransform(last[c].transform[1], Bucket[last[c].path][1])
               /\ ~ApplyTransform(last[c].transform[1], Bucket[last[c].path][1]).ok
                     => /\ last[c].res = Err("Transform")
                        /\ last[c].res.val = <<>>
               /\ (last[c].transform[1] = "xor" /\ Bucket[last[c].path][1] # <<>>)
                     => /\ last[c].res # Ok(Bucket[last[c].path][1])
                        /\ ApplyTransform("xor", last[c].res.val[1]) = Ok(Bucket[last[c].path][1])

\* a read whose decrypt transform failed on a stored, non-empty body
DecryptOnceWitness ==
    \E c \in Callers :
        /\ Returned(c, "read_data") /\ last[c].transform = Some("fail")
        /\ last[c].requests[1].ok
        /\ Bucket[last[c].path] # None /\ Bucket[last[c].path] # Some(<<>>)
        /\ last[c].res = Err("Transform")

\* C14: read_data on a path that holds no object returns an error and no
\* bytes: the service's missing-key error when the request is answered. This
\* is so for a path that never held an object and for one whose object was
\* deleted or moved away.
ReadAbsentFails ==
    /\ \A p \in Paths, dec \in TransformOptions :
          Bucket[p] = None => ReadNow(p, dec) = Err("NoSuchKey")
    /\ \A c \in Callers :
          /\ (Returned(c, "read_data") /\ Bucket[last[c].path] = None)
                => /\ ~last[c].res.ok
                   /\ last[c].res.val = <<>>
                   /\ last[c].res.err \in {"NoSuchKey", "Backend"}
                   /\ ~last[c].requests[1].ok
          /\ (Returned(c, "delete_file") /\ last[c].res.ok)
                => \A dec \in TransformOptions :
                      ReadNow(last[c].path, dec) = Err("NoSuchKey")
          /\ (Returned(c, "move_file") /\ last[c].res.ok)
                => \A dec \in TransformOptions :
                      ReadNow(last[c].path, dec) = Err("NoSuchKey")

\* a read of a path without an object returned the missing-key error
ReadAbsentFailsWitness ==
    \E c \in Callers :
        /\ Returned(c, "read_data")
        /\ Bucket[last[c].path] = None
        /\ last[c].res = Err("NoSuchKey")

ListVersionsReturnsAll ==
    \A c \in Callers :
        (/\ Returned(c, "list_object_versions")
         /\ \A i \in 1..Len(last[c].requests) : last[c].requests[i].ok)
            => last[c].res = Ok(last[c].data)

\* what the code does instead: with every request answered the call never
\* returns a value; it ends in the panic of unwrap when there is no version
\* and in the panic of todo!() after the last page otherwise
ListVersionsPanics ==
    \A c \in Callers :
        (/\ Returned(c, "list_object_versions")
         /\ \A i \in 1..Len(last[c].requests) : last[c].requests[i].ok)
            => /\ ~last[c].res.ok
               /\ last[c].res.err = IF last[c].data = <<>> THEN "PanicUnwrapNone" ELSE "PanicTodo"

\* the pages of several requests were collected before the panic
ListVersionsPanicsWitness ==
    \E c \in Callers :
        /\ Returned(c, "list_object_versions")
        /\ Len(last[c].requests) > 1
        /\ \A i \in 1..Len(last[c].requests) : last[c].requests[i].ok
        /\ last[c].res.err = "PanicTodo"

\* a call of S3Facade::new by caller c has returned and nothing was called since
NewReturned(c) == pc[c] = "idle" /\ last[c].op = "new"

\* C12: S3Facade::new sends one head_bucket request. When the probe fails
\* new returns Err with the cause of the probe and no facade exists; while
\* no facade exists no operation has run and no request other than the
\* probe was sent. A facade exists only for a bucket whose probe succeeded.
ConstructionProbe ==
    /\ active = {} <=> metadata = NoMetadata
    /\ active = {}
          => \A c \in Callers :
                /\ pc[c] = "idle"
                /\ last[c].op \in {"none", "new"}
                /\ \A i \in 1..Len(last[c].requests) : last[c].requests[i].req = "HeadBucket"
    /\ active # {} => metadata.name \in Buckets
    /\ \A c \in Callers :
          NewReturned(c)
              => /\ last[c].requests = <<Req("HeadBucket", last[c].path, last[c].res.ok)>>
                 /\ last[c].res.ok
                       <=> (last[c].transform = None /\ last[c].path \in Buckets)
                 /\ last[c].res.ok
                       => /\ active = {c}
                          /\ last[c].res.val = <<metadata>>
                          /\ metadata.name = last[c].path
                 /\ ~last[c].res.ok
                       => /\ active = {}
                          /\ metadata = NoMetadata
                          /\ last[c].res.val = <<>>
                          /\ last[c].res.err = IF last[c].transform # None
                                               THEN last[c].transform[1]
                                               ELSE "NotFound"

\* new was refused for a bucket that exists: Err with the cause, no facade
ConstructionProbeWitness ==
    \E c \in Callers :
        /\ NewReturned(c)
        /\ last[c].path \in Buckets
        /\ last[c].res = Err("Forbidden")
        /\ active = {}

\* C19: a facade that was constructed has a non-empty name, the name passed
\* to new, and a non-empty description.
DescriptionNonEmpty ==
    /\ active # {} => (metadata.name # <<>> /\ metadata.description # <<>>)
    /\ \A c \in Callers :
          (NewReturned(c) /\ last[c].res.ok) => metadata.name = last[c].path

\* what the code does instead: name and description are stored as passed,
\* and only the name is known to be non-empty, the probe having succeeded
DescriptionAsPassed ==
    /\ active # {} => metadata.name # <<>>
    /\ \A c \in Callers :
          (NewReturned(c) /\ last[c].res.ok)
              => /\ metadata.name = last[c].path
                 /\ metadata.description = last[c].to

\* a facade was constructed with an empty description
DescriptionAsPassedWitness ==
    \E c \in Callers :
        /\ NewReturned(c) /\ last[c].res.ok
        /\ last[c].to = <<>>
        /\ metadata.description = <<>>

\* C20: the identity of a constructed facade is of the S3 variant; its
\* locator is the ARN head_bucket reported if it reported one, and
\* "arn:aws:s3:::" followed by the name otherwise, so that without a reported
\* ARN the identity is a function of the name.
IdentityIsArn ==
    /\ active # {} => metadata.id.kind = "S3"
    /\ \A c \in Callers :
          (NewReturned(c) /\ last[c].res.ok)
              => /\ metadata.id.kind = "S3"
                 /\ last[c].data # None => metadata.id.arn = last[c].data[1]
                 /\ last[c].data = None
                       => /\ metadata.id.arn = <<"arn:aws:s3:::">> \o last[c].path
                          /\ metadata.id = NewMetadata(last[c].path, <<>>, None).id

\* the service reported an ARN that differs from the one built from the name
IdentityIsArnWitness ==
    \E c \in Callers :
        /\ NewReturned(c) /\ last[c].res.ok
        /\ last[c].data # None
        /\ metadata.id.arn = last[c].data[1]
        /\ metadata.id.arn # <<"arn:aws:s3:::">> \o last[c].path

\* the bytes a successful write_data call put under its path
BodyOf(call) == WriteDataBody(call.data, call.transform).val[1]

\* C16, in every state: when the latest calls of two callers are write_data
\* calls to the same path that both returned Ok, the path holds the whole
\* body of one of the two.
ConcurrentWritesState ==
    \A c \in Callers : \A d \in Callers \ {c} :
        (/\ Returned(c, "write_data") /\ last[c].res.ok
         /\ Returned(d, "write_data") /\ last[d].res.ok
         /\ last[c].path = last[d].path)
            => /\ Bucket[last[c].path] \in {Some(BodyOf(last[c])), Some(BodyOf(last[d]))}
               /\ (last[c].transform = None /\ last[d].transform = None)
                     => ReadNow(last[c].path, None) \in {Ok(last[c].data), Ok(last[d].data)}

\* C16, in every step: the put accepted last decides; a write_data call that
\* returns Ok leaves its own body under the path.
ConcurrentWritesStep ==
    \A c \in Callers :
        (last'[c] # last[c] /\ last'[c].op = "write_data" /\ last'[c].res.ok)
            => store'[metadata.name][last'[c].path] = Some(BodyOf(last'[c]))

\* C16: after two concurrent write_data calls to one path both returned Ok,
\* the path holds exactly the bytes of one of them, those of the put the
\* service accepted last, never a mixture and never no object.
ConcurrentWrites == []ConcurrentWritesState /\ [][ConcurrentWritesStep]_vars

\* two callers wrote different bytes to a path that held a third content
ConcurrentWritesWitness ==
    /\ Returned(1, "write_data") /\ last[1].res.ok /\ last[1].transform = None
    /\ Returned(2, "write_data") /\ last[2].res.ok /\ last[2].transform = None
    /\ last[1].path = last[2].path
    /\ last[1].data # last[2].data
    /\ store0[metadata.name][last[1].path] \notin {None, Some(last[1].data), Some(last[2].data)}
    /\ Bucket[last[1].path] = Some(last[1].data)

\* a recorded call run without interruption on the buckets s
RunCall(s, call, fault1, fault2) ==
    CASE call.op = "write_data" ->
            write_data(s, metadata.name, call.path, call.data, call.transform, fault1)
      [] call.op = "read_data" ->
            read_data(s, metadata.name, call.path, call.transform, fault1)
      [] call.op = "delete_file" -> delete_file(s, metadata.name, call.path, fault1)
      [] call.op = "copy_file" -> copy_file(s, metadata.name, call.path, call.to, fault1)
      [] call.op = "file_exists" -> file_exists(s, metadata.name, call.path, fault1)
      [] call.op = "move_file" ->
            move_file(s, metadata.name, call.path, call.to, fault1, fault2)
      [] call.op = "metadata" -> Outcome(Ok(MetadataRef(metadata)), s, <<>>)

\* the calls of first and then of second, run one after the other from the
\* buckets at the start, return what the callers got, send the requests the
\* callers sent and end in the present buckets
SerialOrder(first, second) ==
    \E f1, f2, f3, f4 \in BOOLEAN :
        LET r1 == RunCall(store0, last[first], f1, f2)
            r2 == RunCall(r1.store, last[second], f3, f4)
        IN  /\ r1.res = last[first].res
            /\ r1.requests = last[first].requests
            /\ r2.res = last[second].res
            /\ r2.requests = last[second].requests
            /\ r2.store = store

BothReturned == \A c \in Callers : c \in active /\ pc[c] = "idle" /\ last[c] # NoCall

\* C17: when two callers that use paths without a common key have each made
\* a call, in any interleaving of the requests, every call returned what it
\* returns when the two calls run one after the other, in either order, and
\* the buckets are those the serial run ends in; the metadata is untouched.
DisjointSerial ==
    /\ metadata = NewMetadata(BucketName, <<"d">>, None)
    /\ BothReturned => (SerialOrder(1, 2) /\ SerialOrder(2, 1))

\* a write_data call of the second caller ran between the copy and the delete
\* of a successful move_file of the first
DisjointSerialWitness ==
    /\ BothReturned
    /\ last[1].op = "move_file" /\ last[1].res.ok
    /\ last[2].op = "write_data" /\ last[2].res.ok
    /\ pre[2][metadata.name][last[1].to] # pre[1][metadata.name][last[1].to]
    /\ pre[2][metadata.name][last[1].path] # None
    /\ Bucket[last[2].path] # store0[metadata.name][last[2].path]

\* the copy request of the returned move_file call of caller c was accepted,
\* and so was its delete request
MoveCopied(c) == Len(last[c].requests) >= 1 /\ last[c].requests[1].ok

MoveDeleted(c) == Len(last[c].requests) >= 2 /\ last[c].requests[2].ok

\* C21 as stated: after a move_file call, returned Ok or Err, the copy and the
\* delete took effect both or neither; the destination is never written while
\* the source is still there.
MoveBothOrNeither ==
    \A c \in Callers :
        Returned(c, "move_file")
            => /\ MoveCopied(c) <=> MoveDeleted(c)
               /\ MoveCopied(c) => Bucket[last[c].path] = None

\* C21: a move_file call ends in one of three ways. Ok: the copy and the
\* delete took effect. Err of the copy: neither took effect, the buckets are
\* as before. Err of the delete: the copy alone took effect, the destination
\* holds the source's content and the source is still there.
MoveOutcomes ==
    \A c \in Callers :
        Returned(c, "move_file")
            => LET from == last[c].path
                   to == last[c].to
               IN
               /\ last[c].res.ok <=> (MoveCopied(c) /\ MoveDeleted(c))
               /\ last[c].res.ok
                     => /\ Bucket[from] = None
                        /\ Bucket[to] = PreBucket(c)[from]
                        /\ PreBucket(c)[from] # None
               /\ ~MoveCopied(c)
                     => /\ ~MoveDeleted(c)
                        /\ store = pre[c]
               /\ (MoveCopied(c) /\ ~MoveDeleted(c))
                     => /\ ~last[c].res.ok
                        /\ PreBucket(c)[from] # None
                        /\ Bucket[from] = PreBucket(c)[from]
                        /\ Bucket[to] = PreBucket(c)[from]
                        /\ store = PutObject(pre[c], metadata.name, to, PreBucket(c)[from][1])

\* a move wrote a destination that held nothing and then failed to delete
\* the source: the object is at both paths
MoveOutcomesWitness ==
    \E c \in Callers :
        /\ Returned(c, "move_file") /\ ~last[c].res.ok
        /\ MoveCopied(c) /\ ~MoveDeleted(c)
        /\ PreBucket(c)[last[c].to] = None
        /\ Bucket[last[c].to] # None
        /\ Bucket[last[c].path] # None

\* the request a single-request operation sends
RequestOf(op) ==
    CASE op = "read_data" -> "GetObject"
      [] op = "write_data" -> "PutObject"
      [] op = "delete_file" -> "DeleteObject"
      [] op = "copy_file" -> "CopyObject"
      [] op = "file_exists" -> "HeadObject"

SingleRequestOps == {"read_data", "write_data", "delete_file", "copy_file", "file_exists"}

\* a failed request is the last request of its call
FailureEndsCall(requests) == \A i \in 1..Len(requests) : ~requests[i].ok => i = Len(requests)

\* C22 as stated: read_data, write_data, delete_file, copy_file and
\* file_exists send exactly one request per call, move_file at most two, and
\* no request follows a failed one.
NoRetriesAsClaimed ==
    \A c \in Callers :
        /\ (c \in active /\ pc[c] = "idle" /\ last[c].op \in SingleRequestOps)
              => /\ Len(last[c].requests) = 1
                 /\ last[c].requests[1].req = RequestOf(last[c].op)
        /\ Returned(c, "move_file")
              => /\ Len(last[c].requests) <= 2
                 /\ FailureEndsCall(last[c].requests)

\* C22: read_data, delete_file, copy_file and file_exists send exactly one
\* request per call; write_data sends one, and none when its encrypt
\* transform failed; move_file sends one copy and, only after the copy
\* succeeded, one delete. No call sends a request after a failed one, and
\* every call but file_exists returns Err when its request failed.
NoRetries ==
    \A c \in Callers :
        /\ (c \in active /\ pc[c] = "idle" /\ last[c].op \in SingleRequestOps)
              => /\ Len(last[c].requests) =
                        IF last[c].op = "write_data"
                              /\ ~WriteDataBody(last[c].data, last[c].transform).ok
                        THEN 0 ELSE 1
                 /\ \A i \in 1..Len(last[c].requests) :
                       /\ last[c].requests[i].req = RequestOf(last[c].op)
                       /\ last[c].requests[i].key =
                             IF last[c].op = "copy_file" THEN last[c].to ELSE last[c].path
                       /\ (~last[c].requests[i].ok /\ last[c].op # "file_exists")
                             => ~last[c].res.ok
        /\ Returned(c, "move_file")
              => /\ Len(last[c].requests) \in {1, 2}
                 /\ last[c].requests[1].req = "CopyObject"
                 /\ Len(last[c].requests) = 2 => last[c].requests[2].req = "DeleteObject"
                 /\ FailureEndsCall(last[c].requests)
                 /\ ~last[c].requests[Len(last[c].requests)].ok => ~last[c].res.ok
        /\ (c \in active /\ pc[c] = "idle") => FailureEndsCall(last[c].requests)
        /\ c \in active => \A i \in 1..Len(cur[c].requests) : cur[c].requests[i].ok

\* a delete_file call whose one request failed returned the error
NoRetriesWitness ==
    \E c \in Callers :
        /\ Returned(c, "delete_file")
        /\ last[c].requests = <<Req("DeleteObject", last[c].path, FALSE)>>
        /\ last[c].res = Err("Backend")
        /\ Bucket[last[c].path] # None

\* the keys a call names as places it may change
NamedKeys(call) ==
    CASE call.op \in {"write_data", "delete_file"} -> {call.path}
      [] call.op = "copy_file" -> {call.to}
      [] call.op = "move_file" -> {call.path, call.to}
      [] OTHER -> {}

\* the buckets differ from those at the start of caller c's call at most
\* under the keys of the set named, in the facade's bucket
ChangedOnly(c, named) ==
    \A b \in Buckets, k \in Keys :
        (b # metadata.name \/ k \notin named) => store[b][k] = pre[c][b][k]

\* C23: an operation changes only the keys it names. After write_data(p) and
\* delete_file(p) every key but p is as before, after copy_file(from, to)
\* every key but to, after move_file(from, to) every key but from and to,
\* also between its two requests; read_data, list_objects, file_exists and
\* metadata leave every key as it was.
Frame ==
    \A c \in Callers :
        /\ (c \in active /\ pc[c] = "idle" /\ last[c].op # "none")
              => ChangedOnly(c, NamedKeys(last[c]))
        /\ (c \in active /\ pc[c] = "move_delete") => ChangedOnly(c, {cur[c].to})
        /\ (c \in active /\ pc[c] = "list_page") => store = pre[c]
        /\ (c \in active /\ pc[c] = "idle"
              /\ last[c].op \in {"read_data", "list_objects", "file_exists", "metadata"})
              => store = pre[c]

\* delete_file removed the object at its path and the object whose key
\* begins with that path is still there
FrameWitness ==
    \E c \in Callers :
        /\ Returned(c, "delete_file") /\ last[c].res.ok
        /\ PreBucket(c)[last[c].path] # None
        /\ Bucket[last[c].path] = None
        /\ \E k \in Keys \ {last[c].path} :
              StartsWith(k, last[c].path) /\ Bucket[k] # None

\* C24: when the encrypt transform given to write_data fails, write_data
\* returns the transform's error, has sent no request, and the buckets, the
\* object already at the path included, are as they were.
EncryptFailsBeforeUpload ==
    \A c \in Callers :
        (/\ Returned(c, "write_data")
         /\ ~WriteDataBody(last[c].data, last[c].transform).ok)
            => /\ last[c].res = Err(WriteDataBody(last[c].data, last[c].transform).err)
               /\ last[c].res = Err("Transform")
               /\ last[c].requests = <<>>
               /\ store = pre[c]
               /\ Bucket[last[c].path] = PreBucket(c)[last[c].path]

\* the transform failed on a write to a path that holds other bytes
EncryptFailsBeforeUploadWitness ==
    \E c \in Callers :
        /\ Returned(c, "write_data")
        /\ last[c].transform = Some("fail")
        /\ last[c].res = Err("Transform")
        /\ Bucket[last[c].path] # None
        /\ Bucket[last[c].path] # Some(last[c].data)

\* caller c moved from a path to another and caller d wrote to the source
\* path other bytes than it held; both calls returned Ok; the write started
\* after the copy request of the move and before its delete request: the move
\* started from the initial buckets and the write from those the copy left
WriteBetweenCopyAndDelete(c, d) ==
    /\ Returned(c, "move_file") /\ last[c].res.ok
    /\ Returned(d, "write_data") /\ last[d].res.ok
    /\ last[d].path = last[c].path
    /\ pre[c] = store0
    /\ pre[d] = copy_file(store0, metadata.name, last[c].path, last[c].to, FALSE).store
    /\ Some(BodyOf(last[d])) # store0[metadata.name][last[c].path]

\* C25: nothing keeps a write_data(from, d2) of another caller from running
\* between the copy and the delete of move_file(from, to). When it does and
\* both calls return Ok, from holds no object and to holds what from held
\* when the move started: d2 is stored at neither path.
LostUpdate ==
    \A c \in Callers : \A d \in Callers \ {c} :
        WriteBetweenCopyAndDelete(c, d)
            => /\ Bucket[last[c].path] = None
               /\ Bucket[last[c].to] = store0[metadata.name][last[c].path]
               /\ Bucket[last[c].to] # Some(BodyOf(last[d]))
               /\ ReadNow(last[c].path, None) = Err("NoSuchKey")
               /\ ReadNow(last[c].to, None) # Ok(BodyOf(last[d]))

\* the interleaving happened with a plain write of non-empty bytes
LostUpdateWitness ==
    \E c \in Callers : \E d \in Callers \ {c} :
        /\ WriteBetweenCopyAndDelete(c, d)
        /\ last[d].transform = None /\ last[d].data # <<>>
        /\ Bucket[last[c].path] = None
        /\ Bucket[last[c].to] # Some(last[d].data)

====
